---- MODULE Spec2Model ----
\* Discovery-and-refresh broker of evohome_cc (src/__init__.py):
\* EvoBroker.update, the classifiers new_sensors / new_binary_sensors and
\* the EvoEntity subscription, run on one cooperative event loop.
EXTENDS Integers, Sequences, FiniteSets, TLC

\* ------------------------------------------------------------------
\* Bounds of the model
\* ------------------------------------------------------------------
MaxPolls == 2
MaxLen == 3
MaxSeconds == 60

\* ------------------------------------------------------------------
\* The gateway's objects (evohome_rf, external): what an inventory can hold
\* ------------------------------------------------------------------
None == "None"

Zones == {"z1"}

DhwIds == {"dhw"}

\* the devices the gateway can report
Devices == {"d1", "d2"}

\* the devices a classifier can be handed
AllDevices == Devices \cup {"d3", "d4"}

\* hasattr(d, a): the attributes a device object exposes
\*   d1 sensor only, d2 both, d3 binary sensor only, d4 neither
Attrs(d) ==
  CASE d = "d1" -> {"temperature"}
    [] d = "d2" -> {"window_open", "temperature"}
    [] d = "d3" -> {"battery_low"}
    [] OTHER -> {"zone_idx"}

\* const.py: the qualifying attributes of the two device categories
BINARY_SENSOR_ATTRS == <<"actuator_enabled", "battery_low", "window_open">>

SENSOR_ATTRS == <<"heat_demand", "temperature">>

Categories == {"climate", "water_heater", "sensor", "binary_sensor"}

\* ------------------------------------------------------------------
\* State
\* ------------------------------------------------------------------
VARIABLES
  evo,             \* client.evo: ready = FALSE is None, else zones, dhw, devices
  climates,        \* broker.climates
  water_heater,    \* broker.water_heater
  sensors,         \* broker.sensors
  binary_sensors,  \* broker.binary_sensors
  tasks,           \* pending async_load_platform tasks, per category
  entities,        \* Front-End Objects: <<category, identity>> -> lifecycle
  handlers,        \* the dispatcher's targets connected to DOMAIN
  inbox,           \* handler calls scheduled by the last publish, not yet run
  polls,           \* number of update() calls so far, of those counted
  since,           \* what has changed since the last update() call
  lastPoll,        \* what the last update() call found and did
  result,          \* the last classifier call made on its own, and its value
  scan             \* the configured scan_interval and what set-up made of it

vars == <<evo, climates, water_heater, sensors, binary_sensors, tasks,
          entities, handlers, inbox, polls, since, lastPoll, result,
          scan>>

tracker == <<climates, water_heater, sensors, binary_sensors>>

history == <<polls, lastPoll, result, scan>>

\* ------------------------------------------------------------------
\* Sequence helpers
\* ------------------------------------------------------------------
Range(s) == {s[i] : i \in 1..Len(s)}

\* x in list
InList(x, s) == \E i \in 1..Len(s) : s[i] = x

\* any([hasattr(d, a) for a in attrs])
AnyHasAttr(d, attrs) == \E i \in 1..Len(attrs) : attrs[i] \in Attrs(d)

Count(s, x) == Cardinality({i \in 1..Len(s) : s[i] = x})

\* ------------------------------------------------------------------
\* The classifiers: [d for d in devices if ...] keeps the devices that
\* pass, in the order of devices
\* ------------------------------------------------------------------
\* new_binary_sensors asking for all() of the attributes
new_binary_sensors_all_attrs(devices, tracked) ==
  SelectSeq(devices,
    LAMBDA d : /\ ~InList(d, tracked)
               /\ \A i \in 1..Len(BINARY_SENSOR_ATTRS) :
                    BINARY_SENSOR_ATTRS[i] \in Attrs(d))

\* new_binary_sensors without the test on broker.binary_sensors
new_binary_sensors_untracked(devices, tracked) ==
  SelectSeq(devices, LAMBDA d : AnyHasAttr(d, BINARY_SENSOR_ATTRS))

new_binary_sensors(devices, tracked) ==
  SelectSeq(devices,
    LAMBDA d : ~InList(d, tracked) /\ AnyHasAttr(d, BINARY_SENSOR_ATTRS))

\* new_sensors probing the attributes of the other category
new_sensors_wrong_attrs(devices, tracked) ==
  SelectSeq(devices,
    LAMBDA d : ~InList(d, tracked) /\ AnyHasAttr(d, BINARY_SENSOR_ATTRS))

\* new_sensors leaving out what its last call returned
new_sensors_remembers(devices, tracked) ==
  SelectSeq(devices,
    LAMBDA d : /\ ~InList(d, tracked)
               /\ ~(result.ran /\ InList(d, result.out))
               /\ AnyHasAttr(d, SENSOR_ATTRS))

new_sensors(devices, tracked) ==
  SelectSeq(devices,
    LAMBDA d : ~InList(d, tracked) /\ AnyHasAttr(d, SENSOR_ATTRS))

\* [z for z in evohome.zones if z not in self.climates]
new_climates(zones, tracked) ==
  SelectSeq(zones, LAMBDA z : ~InList(z, tracked))

\* evohome.dhw and self.water_heater is None
new_water_heater(dhw, tracked) == dhw # None /\ tracked = None

\* ------------------------------------------------------------------
\* The configuration: scan_interval, in seconds
\* ------------------------------------------------------------------
SCAN_INTERVAL_DEFAULT == 300
SCAN_INTERVAL_MINIMUM == 10

\* CONFIG_SCHEMA without the vol.Range on scan_interval
CONFIG_SCHEMA_no_floor(given, conf) ==
  IF ~given THEN [valid |-> TRUE, scan_interval |-> SCAN_INTERVAL_DEFAULT]
  ELSE [valid |-> TRUE, scan_interval |-> conf]

\* CONFIG_SCHEMA on the scan_interval key (given: the key is there, with
\* conf seconds): vol.Optional puts the default, vol.Range(min=...) refuses
\* anything lower; scan_interval is 0 when there is no valid value
CONFIG_SCHEMA(given, conf) ==
  IF ~given THEN [valid |-> TRUE, scan_interval |-> SCAN_INTERVAL_DEFAULT]
  ELSE IF conf < SCAN_INTERVAL_MINIMUM
       THEN [valid |-> FALSE, scan_interval |-> 0]
       ELSE [valid |-> TRUE, scan_interval |-> conf]

\* what set-up makes of the configuration: async_track_time_interval with
\* the validated period, or no set-up when validation refuses it
SetUp(given, conf) ==
  [given |-> given, conf |-> conf,
   status |-> IF CONFIG_SCHEMA(given, conf).valid
              THEN "scheduled" ELSE "rejected",
   period |-> CONFIG_SCHEMA(given, conf).scan_interval]

\* ------------------------------------------------------------------
\* Values of the state
\* ------------------------------------------------------------------
\* the four Tracker attributes of the broker, by category
Tracker == [climate |-> climates, water_heater |-> water_heater,
            sensor |-> sensors, binary_sensor |-> binary_sensors]

NoEvo == [ready |-> FALSE, zones |-> <<>>, dhw |-> None, devices |-> <<>>]

\* inventory, tracker: it has changed; failed: the categories of which a
\* platform set-up task has failed; raised: the scheduled calls of _refresh
\* that have raised
NoChange == [inventory |-> FALSE, tracker |-> FALSE, failed |-> {},
             raised |-> 0]

\* ready: the call found an inventory; new: the pairs it had to discover;
\* events: what it did, in order; kept: the Tracker on return is the Tracker
\* on entry; recorded: the pairs of new in the Tracker on return; reasked:
\* the pairs of new the call before it had already asked for; again: the call
\* before it found the same inventory; sameTracker: and the same Tracker;
\* prevEvents: the events of that call; fault: the inventory read that
\* raised in the call; outcome: how the call ended; retry: the pairs the call
\* before it asked for and of which a task has failed since
NoPoll == [ran |-> FALSE, ready |-> FALSE, new |-> {}, events |-> <<>>,
           kept |-> TRUE, recorded |-> {}, reasked |-> {}, again |-> FALSE,
           sameTracker |-> FALSE, prevEvents |-> <<>>, fault |-> "none",
           outcome |-> "returned", retry |-> {}]

NoResult == [ran |-> FALSE, fn |-> "new_sensors", out |-> <<>>]

Pairs == ({"climate"} \X Zones) \cup ({"water_heater"} \X DhwIds)
         \cup ({"sensor", "binary_sensor"} \X Devices)

\* the pairs whose Front-End Object is followed through its lifecycle
Followed == {<<"climate", "z1">>}

\* the Front-End Objects there can be: the followed ones, and one that is
\* only met once it is connected
Objects == Followed \cup {<<"water_heater", "dhw">>}

\* identity p[2] is in the inventory e and qualifies for category p[1]
Qualifies(p, e) ==
  CASE p[1] = "climate" -> p[2] \in Range(e.zones)
    [] p[1] = "water_heater" -> p[2] = e.dhw
    [] p[1] = "sensor" ->
         p[2] \in Range(e.devices) /\ Attrs(p[2]) \cap Range(SENSOR_ATTRS) # {}
    [] OTHER ->
         p[2] \in Range(e.devices)
         /\ Attrs(p[2]) \cap Range(BINARY_SENSOR_ATTRS) # {}

\* identity p[2] is in the Tracker t for category p[1]
Present(p, t) ==
  IF p[1] = "water_heater" THEN t.water_heater = p[2]
  ELSE p[2] \in Range(t[p[1]])

\* the pairs the Tracker t holds
TrackedPairs(t) == {p \in Pairs : Present(p, t)}

\* the pairs that qualify in the inventory e and are absent from the Tracker t
Undiscovered(e, t) == {p \in Pairs : Qualifies(p, e) /\ ~Present(p, t)}

Init ==
  /\ evo = NoEvo
  /\ climates = <<>>
  /\ water_heater = None
  /\ sensors = <<>>
  /\ binary_sensors = <<>>
  /\ tasks = [c \in Categories |-> 0]
  /\ entities = [p \in Objects |-> "none"]
  /\ handlers = <<>>
  /\ inbox = <<>>
  /\ polls = 0
  /\ since = NoChange
  /\ lastPoll = NoPoll
  /\ result = NoResult
  /\ scan = SetUp(FALSE, 0)

\* ------------------------------------------------------------------
\* The gateway client (evohome_rf): the inventory appears and grows
\* ------------------------------------------------------------------
GatewaySync ==
  /\ ~evo.ready
  /\ evo' = [evo EXCEPT !.ready = TRUE]
  /\ since' = [since EXCEPT !.inventory = TRUE]
  /\ UNCHANGED <<tracker, tasks, entities, handlers, inbox, history>>

AddZone(z) ==
  /\ evo.ready
  /\ ~InList(z, evo.zones)
  /\ evo' = [evo EXCEPT !.zones = Append(@, z)]
  /\ since' = [since EXCEPT !.inventory = TRUE]
  /\ UNCHANGED <<tracker, tasks, entities, handlers, inbox, history>>

AddDhw(h) ==
  /\ evo.ready
  /\ evo.dhw = None
  /\ evo' = [evo EXCEPT !.dhw = h]
  /\ since' = [since EXCEPT !.inventory = TRUE]
  /\ UNCHANGED <<tracker, tasks, entities, handlers, inbox, history>>

AddDevice(d) ==
  /\ evo.ready
  /\ ~InList(d, evo.devices)
  /\ evo' = [evo EXCEPT !.devices = Append(@, d)]
  /\ since' = [since EXCEPT !.inventory = TRUE]
  /\ UNCHANGED <<tracker, tasks, entities, handlers, inbox, history>>

\* ------------------------------------------------------------------
\* EvoBroker.update
\* ------------------------------------------------------------------
DOMAIN_TOPIC == "evohome_cc"

\* Requests with the binary-sensor branch loading the sensor platform
Requests_sensor_twice(e, t) ==
  (IF new_climates(e.zones, t.climate) # <<>> THEN <<"climate">> ELSE <<>>)
  \o (IF new_water_heater(e.dhw, t.water_heater)
      THEN <<"water_heater">> ELSE <<>>)
  \o (IF new_sensors(e.devices, t.sensor) # <<>> THEN <<"sensor">> ELSE <<>>)
  \o (IF new_binary_sensors(e.devices, t.binary_sensor) # <<>>
      THEN <<"sensor">> ELSE <<>>)

\* the async_load_platform requests of one update(), in the order issued
Requests(e, t) ==
  (IF new_climates(e.zones, t.climate) # <<>> THEN <<"climate">> ELSE <<>>)
  \o (IF new_water_heater(e.dhw, t.water_heater)
      THEN <<"water_heater">> ELSE <<>>)
  \o (IF new_sensors(e.devices, t.sensor) # <<>> THEN <<"sensor">> ELSE <<>>)
  \o (IF new_binary_sensors(e.devices, t.binary_sensor) # <<>>
      THEN <<"binary_sensor">> ELSE <<>>)

\* UpdateEvents without the return on client.evo is None
UpdateEvents_no_return(e, t) == Append(Requests(e, t), DOMAIN_TOPIC)

\* UpdateEvents sending the notification only after a request
UpdateEvents_send_if_new(e, t) ==
  IF ~e.ready \/ Requests(e, t) = <<>> THEN <<>>
  ELSE Append(Requests(e, t), DOMAIN_TOPIC)

\* UpdateEvents sending the notification before the requests
UpdateEvents_send_first(e, t) ==
  IF ~e.ready THEN <<>> ELSE <<DOMAIN_TOPIC>> \o Requests(e, t)

\* UpdateEvents sending the notification inside each request branch
UpdateEvents_send_per_request(e, t) ==
  IF ~e.ready THEN <<>>
  ELSE [i \in 1..(2 * Len(Requests(e, t))) |->
          IF i % 2 = 1 THEN Requests(e, t)[(i + 1) \div 2]
          ELSE DOMAIN_TOPIC]

\* everything one update() does, in order: nothing when client.evo is None,
\* else the requests and then async_dispatcher_send(DOMAIN)
UpdateEvents(e, t) ==
  IF ~e.ready THEN <<>> ELSE Append(Requests(e, t), DOMAIN_TOPIC)

RequestsOf(events) == SelectSeq(events, LAMBDA x : x \in Categories)

\* the Tracker with the identities in new recorded for category c
Recorded(c, new, t) ==
  IF c = "water_heater"
  THEN [t EXCEPT !.water_heater = IF new = <<>> THEN @ ELSE new[1]]
  ELSE [t EXCEPT ![c] = @ \o new]

\* the identities of category c that the inventory holds and the Tracker lacks
NewOf(c, e, t) ==
  CASE c = "climate" -> new_climates(e.zones, t.climate)
    [] c = "water_heater" ->
         IF new_water_heater(e.dhw, t.water_heater) THEN <<e.dhw>> ELSE <<>>
    [] c = "sensor" -> new_sensors(e.devices, t.sensor)
    [] OTHER -> new_binary_sensors(e.devices, t.binary_sensor)

\* UpdateTracker recording what update() found new before it dispatches
UpdateTracker_marks(e, t) ==
  IF ~e.ready THEN t
  ELSE [climate |-> t.climate \o NewOf("climate", e, t),
        water_heater |-> Recorded("water_heater",
                                  NewOf("water_heater", e, t), t).water_heater,
        sensor |-> t.sensor \o NewOf("sensor", e, t),
        binary_sensor |-> t.binary_sensor \o NewOf("binary_sensor", e, t)]

\* UpdateTracker appending the zones of the inventory, new or not
UpdateTracker_remarks(e, t) ==
  IF ~e.ready THEN t ELSE [t EXCEPT !.climate = @ \o e.zones]

\* the Tracker when update() returns: update() assigns none of its attributes
UpdateTracker(e, t) == t

\* Dispatch awaiting each platform set-up: none is pending on return
Dispatch_awaited(ts, reqs) == ts

\* the pending tasks after hass.async_create_task for each request of reqs:
\* the task is created and not awaited
Dispatch(ts, reqs) == [c \in Categories |-> ts[c] + Count(reqs, c)]

\* the reads of the inventory in update(), in order: evohome.schema (line
\* 176), evohome.zones (180), evohome.dhw (185), evo.devices in new_sensors
\* and new_binary_sensors (192, 197), evohome.params and .status (204, 205)
Reads == {"schema", "zones", "dhw", "devices", "status"}

\* the request branches update() has passed when it makes the read at
RunBefore(at) ==
  CASE at \in {"schema", "zones"} -> {}
    [] at = "dhw" -> {"climate"}
    [] at = "devices" -> {"climate", "water_heater"}
    [] OTHER -> Categories

\* what update() has done when the read at raises: the requests of the
\* branches before it, and no async_dispatcher_send
UpdateEventsUntil(at, e, t) ==
  SelectSeq(Requests(e, t), LAMBDA c : c \in RunBefore(at))

\* how update() ends when the read fault raises ("none": no read raises):
\* update() has no try statement, the exception leaves it
UpdateOutcome(fault) == IF fault = "none" THEN "returned" ELSE "raised"

\* Publish calling each target inside the send: none is left scheduled
Publish_inline(hs, ents) == <<>>

\* Publish after awaiting the set-up of the objects still to be made: they
\* are connected by then and get a call too
Publish_new_objects(hs, ents) ==
  [i \in 1..Len(hs) |->
     [key |-> hs[i], stale |-> ents[hs[i]] = "torn_down"]]
  \o (IF \E p \in Followed : ents[p] = "none"
      THEN <<[key |-> CHOOSE p \in Followed : ents[p] = "none",
              stale |-> FALSE]>>
      ELSE <<>>)

\* async_dispatcher_send(DOMAIN): one call is scheduled on the loop for each
\* connected target, in the order connected, and none is run
Publish(hs, ents) ==
  [i \in 1..Len(hs) |->
     [key |-> hs[i], stale |-> ents[hs[i]] = "torn_down"]]

\* update() has no await: it runs as one step of the event loop. The handler
\* calls a publish schedules are queued on the loop ahead of the next timer
\* callback, so the next update() finds them run. The fields new, kept,
\* recorded, reasked, again and sameTracker of lastPoll only record the call.
\* n is the count of calls once this one is made.
UpdateBody(n) ==
  /\ inbox = <<>>
  /\ LET events == UpdateEvents(evo, Tracker)
         reqs == RequestsOf(events)
         after == UpdateTracker(evo, Tracker)
         new == Undiscovered(evo, Tracker)
     IN /\ tasks' = Dispatch(tasks, reqs)
        /\ climates' = after.climate
        /\ water_heater' = after.water_heater
        /\ sensors' = after.sensor
        /\ binary_sensors' = after.binary_sensor
        /\ inbox' = IF Count(events, DOMAIN_TOPIC) > 0
                    THEN Publish(handlers, entities) ELSE <<>>
        /\ lastPoll' = [ran |-> TRUE, ready |-> evo.ready, new |-> new,
                        events |-> events, kept |-> after = Tracker,
                        recorded |-> {p \in new : Present(p, after)},
                        reasked |-> {p \in new \cap lastPoll.new :
                                      Count(lastPoll.events, p[1]) > 0},
                        again |-> /\ lastPoll.ran
                                  /\ lastPoll.ready
                                  /\ ~since.inventory,
                        sameTracker |-> ~since.tracker,
                        prevEvents |-> lastPoll.events,
                        fault |-> "none",
                        outcome |-> UpdateOutcome("none"),
                        retry |-> {p \in lastPoll.new :
                                    /\ Count(lastPoll.events, p[1]) > 0
                                    /\ p[1] \in since.failed}]
  /\ polls' = n
  /\ since' = NoChange
  /\ UNCHANGED <<evo, entities, handlers, result, scan>>

\* one of the first MaxPolls calls of update(), which are counted
update == polls < MaxPolls /\ UpdateBody(polls + 1)

\* a call of update() that is not counted, so that there can be any number
\* of them; it is only looked at while the tasks pending after it stay
\* within MaxPolls a category
update_more ==
  /\ \A c \in Categories :
       tasks[c] + Count(Requests(evo, Tracker), c) <= MaxPolls
  /\ UpdateBody(polls)

\* update() when the gateway raises on the read at: the requests issued
\* before the read stay issued, nothing is published
update_raises(at) ==
  /\ polls < MaxPolls
  /\ inbox = <<>>
  /\ evo.ready
  /\ LET events == UpdateEventsUntil(at, evo, Tracker)
         after == UpdateTracker(evo, Tracker)
         new == Undiscovered(evo, Tracker)
     IN /\ tasks' = Dispatch(tasks, events)
        /\ climates' = after.climate
        /\ water_heater' = after.water_heater
        /\ sensors' = after.sensor
        /\ binary_sensors' = after.binary_sensor
        /\ lastPoll' = [ran |-> TRUE, ready |-> TRUE, new |-> new,
                        events |-> events, kept |-> after = Tracker,
                        recorded |-> {p \in new : Present(p, after)},
                        reasked |-> {p \in new \cap lastPoll.new :
                                      Count(lastPoll.events, p[1]) > 0},
                        again |-> /\ lastPoll.ran
                                  /\ lastPoll.ready
                                  /\ ~since.inventory,
                        sameTracker |-> ~since.tracker,
                        prevEvents |-> lastPoll.events,
                        fault |-> at,
                        outcome |-> UpdateOutcome(at),
                        retry |-> {p \in lastPoll.new :
                                    /\ Count(lastPoll.events, p[1]) > 0
                                    /\ p[1] \in since.failed}]
  /\ polls' = polls + 1
  /\ since' = NoChange
  /\ UNCHANGED <<evo, entities, handlers, inbox, result, scan>>

\* ------------------------------------------------------------------
\* The platform set-up that a request starts (async_load_platform)
\* ------------------------------------------------------------------
\* the task fails: it is gone and nothing else happened; since notes it
LoadPlatformFail(c) ==
  /\ tasks[c] > 0
  /\ tasks' = [tasks EXCEPT ![c] = @ - 1]
  /\ since' = [since EXCEPT !.failed = @ \cup {c}]
  /\ UNCHANGED <<evo, tracker, entities, handlers, inbox, history>>

\* the task completes: Front-End Objects exist for the category's new
\* identities. The Tracker is the set of identities already turned into
\* Front-End Objects, yet it is said not to be written by a task: both
\* outcomes are kept, the identities are recorded or they are not.
LoadPlatform(c, records) ==
  /\ tasks[c] > 0
  /\ evo.ready
  /\ LET new == NewOf(c, evo, Tracker)
         after == IF records THEN Recorded(c, new, Tracker) ELSE Tracker
         made == {p \in Followed : p[1] = c /\ InList(p[2], new)
                                    /\ entities[p] = "none"}
     IN /\ entities' = [p \in Objects |->
                          IF p \in made THEN "uninitialized" ELSE entities[p]]
        /\ climates' = after.climate
        /\ water_heater' = after.water_heater
        /\ sensors' = after.sensor
        /\ binary_sensors' = after.binary_sensor
        /\ since' = [since EXCEPT !.tracker = @ \/ after # Tracker]
  /\ tasks' = [tasks EXCEPT ![c] = @ - 1]
  /\ UNCHANGED <<evo, handlers, inbox, history>>

\* ------------------------------------------------------------------
\* EvoEntity
\* ------------------------------------------------------------------
\* Connect connecting the target twice
Connect_twice(hs, p) == Append(Append(hs, p), p)

\* async_dispatcher_connect(DOMAIN, self._refresh): one more target
Connect(hs, p) == Append(hs, p)

\* async_added_to_hass: connect _refresh to DOMAIN; the handle is dropped
async_added_to_hass(p) ==
  /\ entities[p] = "uninitialized"
  /\ entities' = [entities EXCEPT ![p] = "subscribed"]
  /\ handlers' = Connect(handlers, p)
  /\ UNCHANGED <<evo, tracker, tasks, inbox, since, history>>

\* the dispatcher's targets once the entity p is removed: nothing of
\* EvoEntity disconnects its target
Released(hs, p) == hs

\* the host removes the entity
Teardown(p) ==
  /\ entities[p] = "subscribed"
  /\ entities' = [entities EXCEPT ![p] = "torn_down"]
  /\ handlers' = Released(handlers, p)
  /\ UNCHANGED <<evo, tracker, tasks, inbox, since, history>>

\* the dispatcher runs the oldest scheduled call of _refresh
_refresh ==
  /\ inbox # <<>>
  /\ inbox' = Tail(inbox)
  /\ UNCHANGED <<evo, tracker, tasks, entities, handlers, since, history>>

\* the oldest scheduled call of _refresh raises (its
\* async_schedule_update_ha_state does): the loop reports it and goes on
_refresh_raises ==
  /\ inbox # <<>>
  /\ inbox' = Tail(inbox)
  /\ since' = [since EXCEPT !.raised = @ + 1]
  /\ UNCHANGED <<evo, tracker, tasks, entities, handlers, history>>

Next ==
  \/ GatewaySync
  \/ \E z \in Zones : AddZone(z)
  \/ \E h \in DhwIds : AddDhw(h)
  \/ \E d \in Devices : AddDevice(d)
  \/ update
  \/ \E c \in Categories, records \in BOOLEAN : LoadPlatform(c, records)
  \/ \E p \in Followed : async_added_to_hass(p)
  \/ \E p \in Followed : Teardown(p)
  \/ _refresh

Spec == Init /\ [][Next]_vars

\* ------------------------------------------------------------------
\* The broker with a gateway whose reads can raise
\* ------------------------------------------------------------------
NextFault ==
  \/ GatewaySync
  \/ \E z \in Zones : AddZone(z)
  \/ \E h \in DhwIds : AddDhw(h)
  \/ \E d \in Devices : AddDevice(d)
  \/ update
  \/ \E at \in Reads : update_raises(at)
  \/ \E c \in Categories, records \in BOOLEAN : LoadPlatform(c, records)

SpecFault == Init /\ [][NextFault]_vars

\* ------------------------------------------------------------------
\* The classifiers on their own: every inventory and every Tracker list
\* ------------------------------------------------------------------
\* the lists over S without repetition, of length at most n
DistinctSeqs(S, n) ==
  UNION {{s \in [1..k -> S] : \A i, j \in 1..k : i # j => s[i] # s[j]}
         : k \in 0..n}

InitClassifier ==
  /\ \E devs \in DistinctSeqs(AllDevices, MaxLen) :
       evo = [ready |-> TRUE, zones |-> <<>>, dhw |-> None, devices |-> devs]
  /\ climates = <<>>
  /\ water_heater = None
  /\ sensors \in DistinctSeqs(AllDevices, MaxLen)
  /\ binary_sensors \in DistinctSeqs(AllDevices, MaxLen)
  /\ tasks = [c \in Categories |-> 0]
  /\ entities = [p \in Objects |-> "none"]
  /\ handlers = <<>>
  /\ inbox = <<>>
  /\ polls = 0
  /\ since = NoChange
  /\ lastPoll = NoPoll
  /\ result = NoResult
  /\ scan = SetUp(FALSE, 0)

CallNewSensors ==
  /\ result' = [ran |-> TRUE, fn |-> "new_sensors",
                out |-> new_sensors(evo.devices, sensors)]
  /\ UNCHANGED <<evo, tracker, tasks, entities, handlers, inbox, polls,
                 since, lastPoll, scan>>

CallNewBinarySensors ==
  /\ result' = [ran |-> TRUE, fn |-> "new_binary_sensors",
                out |-> new_binary_sensors(evo.devices, binary_sensors)]
  /\ UNCHANGED <<evo, tracker, tasks, entities, handlers, inbox, polls,
                 since, lastPoll, scan>>

NextClassifier == CallNewSensors \/ CallNewBinarySensors

SpecClassifier == InitClassifier /\ [][NextClassifier]_vars

\* ------------------------------------------------------------------
\* The broker with platform set-ups that can fail, on every inventory
\* ------------------------------------------------------------------
InitTasks ==
  /\ \E zs \in DistinctSeqs(Zones, MaxLen), h \in DhwIds \cup {None},
        devs \in DistinctSeqs(Devices, MaxLen) :
       evo = [ready |-> TRUE, zones |-> zs, dhw |-> h, devices |-> devs]
  /\ climates = <<>>
  /\ water_heater = None
  /\ sensors = <<>>
  /\ binary_sensors = <<>>
  /\ tasks = [c \in Categories |-> 0]
  /\ entities = [p \in Objects |-> "none"]
  /\ handlers = <<>>
  /\ inbox = <<>>
  /\ polls = 0
  /\ since = NoChange
  /\ lastPoll = NoPoll
  /\ result = NoResult
  /\ scan = SetUp(FALSE, 0)

NextTasks ==
  \/ update
  \/ \E c \in Categories : LoadPlatformFail(c)
  \/ \E c \in Categories, records \in BOOLEAN : LoadPlatform(c, records)

SpecTasks == InitTasks /\ [][NextTasks]_vars

\* ------------------------------------------------------------------
\* The dispatcher with two connected entities whose _refresh can raise
\* ------------------------------------------------------------------
InitBus ==
  /\ evo = [ready |-> TRUE, zones |-> <<"z1">>, dhw |-> "dhw",
            devices |-> <<>>]
  /\ climates = <<"z1">>
  /\ water_heater = "dhw"
  /\ sensors = <<>>
  /\ binary_sensors = <<>>
  /\ tasks = [c \in Categories |-> 0]
  /\ entities = [p \in Objects |-> "subscribed"]
  /\ handlers \in {hs \in DistinctSeqs(Objects, Cardinality(Objects)) :
                     Len(hs) = Cardinality(Objects)}
  /\ inbox = <<>>
  /\ polls = 0
  /\ since = NoChange
  /\ lastPoll = NoPoll
  /\ result = NoResult
  /\ scan = SetUp(FALSE, 0)

NextBus ==
  \/ \E d \in Devices : AddDevice(d)
  \/ update
  \/ \E c \in Categories, records \in BOOLEAN : LoadPlatform(c, records)
  \/ \E p \in Objects : Teardown(p)
  \/ _refresh
  \/ _refresh_raises

SpecBus == InitBus /\ [][NextBus]_vars

\* ------------------------------------------------------------------
\* The broker polled for ever on an inventory that no longer changes, with
\* platform set-ups that all complete
\* ------------------------------------------------------------------
NextLive ==
  \/ update_more
  \/ \E c \in Categories, records \in BOOLEAN : LoadPlatform(c, records)

\* the timer keeps calling update(), and a pending task completes
FairLive ==
  /\ WF_vars(update_more)
  /\ \A c \in Categories :
       WF_vars(\E records \in BOOLEAN : LoadPlatform(c, records))

SpecLive == InitTasks /\ [][NextLive]_vars /\ FairLive

\* ------------------------------------------------------------------
\* Set-up on every configured scan_interval
\* ------------------------------------------------------------------
InitConfig ==
  /\ evo = NoEvo
  /\ climates = <<>>
  /\ water_heater = None
  /\ sensors = <<>>
  /\ binary_sensors = <<>>
  /\ tasks = [c \in Categories |-> 0]
  /\ entities = [p \in Objects |-> "none"]
  /\ handlers = <<>>
  /\ inbox = <<>>
  /\ polls = 0
  /\ since = NoChange
  /\ lastPoll = NoPoll
  /\ result = NoResult
  /\ \E given \in BOOLEAN, conf \in 0..MaxSeconds :
       /\ ~given => conf = 0
       /\ scan = [given |-> given, conf |-> conf, status |-> "unset",
                  period |-> 0]

async_setup ==
  /\ scan.status = "unset"
  /\ scan' = SetUp(scan.given, scan.conf)
  /\ UNCHANGED <<evo, tracker, tasks, entities, handlers, inbox, polls, since,
                 lastPoll, result>>

NextConfig == async_setup

SpecConfig == InitConfig /\ [][NextConfig]_vars

\* ------------------------------------------------------------------
\* Claims
\* ------------------------------------------------------------------
\* the last update() ran with an available inventory
PolledInventory == lastPoll.ran /\ lastPoll.ready

C4_RequestsAreNewCategories ==
  PolledInventory =>
    \A c \in Categories :
      Count(lastPoll.events, c) =
        IF \E p \in lastPoll.new : p[1] = c THEN 1 ELSE 0

\* empty Tracker, a sensor-only device and the hot water: two requests
C4_Witness ==
  /\ PolledInventory
  /\ Tracker = [climate |-> <<>>, water_heater |-> None,
                sensor |-> <<>>, binary_sensor |-> <<>>]
  /\ lastPoll.new = {<<"sensor", "d1">>, <<"water_heater", "dhw">>}
  /\ RequestsOf(lastPoll.events) = <<"water_heater", "sensor">>

\* C5: a poll that finds no inventory changes nothing of the broker, issues
\* no request and publishes nothing.
C5_NoInventoryNoEffect ==
  [][(polls' = polls + 1 /\ ~evo.ready) =>
       /\ UNCHANGED <<evo, tracker, tasks, entities, handlers, inbox, scan>>
       /\ lastPoll'.events = <<>>]_vars

\* a poll ran before the gateway had an inventory
C5_Witness == lastPoll.ran /\ ~lastPoll.ready

\* C6: every poll that finds an inventory publishes exactly one notification.
C6_OnePublishPerPoll ==
  PolledInventory => Count(lastPoll.events, DOMAIN_TOPIC) = 1

\* a poll that had nothing to request and one that requested two categories
C6_Witness ==
  /\ PolledInventory
  /\ Len(RequestsOf(lastPoll.events)) = 2
  /\ Len(RequestsOf(lastPoll.prevEvents)) = 0
  /\ Count(lastPoll.prevEvents, DOMAIN_TOPIC) = 1

\* a step that runs a scheduled call of _refresh
RefreshStep == inbox # <<>> /\ inbox' = Tail(inbox)

\* the inputs and the qualifying attributes of the classifier last called
CalledOn ==
  IF result.fn = "new_sensors"
  THEN [devices |-> evo.devices, tracked |-> sensors, attrs |-> SENSOR_ATTRS]
  ELSE [devices |-> evo.devices, tracked |-> binary_sensors,
        attrs |-> BINARY_SENSOR_ATTRS]

\* the devices the classifier is to return, as a set
Wanted ==
  {d \in Range(CalledOn.devices) :
     /\ d \notin Range(CalledOn.tracked)
     /\ Attrs(d) \cap Range(CalledOn.attrs) # {}}

\* the place of x in the list s
Place(s, x) == CHOOSE k \in 1..Len(s) : s[k] = x

\* C7: a classifier returns exactly the inventory devices that are not
\* tracked and expose a qualifying attribute, each once, in inventory order.
C7_ClassifierSubsequence ==
  result.ran =>
    /\ Range(result.out) = Wanted
    /\ Len(result.out) = Cardinality(Wanted)
    /\ \A i, j \in 1..Len(result.out) :
         i < j => Place(CalledOn.devices, result.out[i])
                    < Place(CalledOn.devices, result.out[j])
    /\ (CalledOn.devices = <<>> => result.out = <<>>)
    /\ (Range(CalledOn.devices) \subseteq Range(CalledOn.tracked)
          => result.out = <<>>)

\* three devices: one dropped, two returned in inventory order
C7_Witness ==
  /\ result.ran
  /\ Len(evo.devices) = 3
  /\ Len(result.out) = 2
  /\ Wanted # Range(evo.devices)

C10_NoStaleHandler == [][RefreshStep => ~Head(inbox).stale]_vars

\* C11: a read of the inventory that raises during update() is contained:
\* update() still returns without an exception, and the Tracker on return is
\* the Tracker on entry
C11_ReadFailureContained ==
  (lastPoll.ran /\ lastPoll.fault # "none")
    => lastPoll.outcome = "returned" /\ lastPoll.kept

FailStep == since'.failed # since.failed /\ since.failed \subseteq since'.failed

PollStep == polls' = polls + 1

NoDuplicates(t) ==
  \A c \in Categories \ {"water_heater"} :
    \A i, j \in 1..Len(t[c]) : i # j => t[c][i] # t[c][j]

\* the Tracker u holds all the Tracker t holds, in the same places
Extends(t, u) ==
  /\ t.water_heater # None => u.water_heater = t.water_heater
  /\ \A c \in Categories \ {"water_heater"} :
       Len(t[c]) <= Len(u[c]) /\ \A i \in 1..Len(t[c]) : u[c][i] = t[c][i]

EmptyTracker == [climate |-> <<>>, water_heater |-> None, sensor |-> <<>>,
                 binary_sensor |-> <<>>]

C15_PollNeverWaits ==
  [][PollStep
       => /\ lastPoll'.outcome = "returned"
          /\ evo.ready => Count(lastPoll'.events, DOMAIN_TOPIC) = 1
          /\ \A c \in Categories :
               tasks'[c] = tasks[c] + Count(lastPoll'.events, c)]_vars

\* every update() has returned and published while no sensor task has run
C15_Witness ==
  /\ polls = MaxPolls
  /\ tasks["sensor"] = MaxPolls
  /\ Count(lastPoll.events, DOMAIN_TOPIC) = 1
  /\ Count(lastPoll.prevEvents, DOMAIN_TOPIC) = 1

\* a scheduled call of _refresh raises
RaiseStep == since'.raised = since.raised + 1

C17_PeriodFloor ==
  /\ scan.status = "scheduled"
       => /\ scan.period >= SCAN_INTERVAL_MINIMUM
          /\ scan.period = IF scan.given THEN scan.conf
                           ELSE SCAN_INTERVAL_DEFAULT
  /\ scan.status = "rejected"
       => scan.given /\ scan.conf < SCAN_INTERVAL_MINIMUM
  /\ (scan.status # "unset" /\ scan.given
        /\ scan.conf < SCAN_INTERVAL_MINIMUM) => scan.status = "rejected"

\* nine seconds have been configured and refused
C17_Witness ==
  /\ scan.given
  /\ scan.conf = SCAN_INTERVAL_MINIMUM - 1
  /\ scan.status = "rejected"

\* the scheduled calls of q that are for the object p
CallsFor(q, p) == Cardinality({i \in 1..Len(q) : q[i].key = p})

\* C18: update() makes and connects no object while it runs, and its
\* publish schedules calls only for the handlers connected before it
\* started; a handler connected later gets no call of that publish, calls
\* are scheduled by update() alone, so its first call is of a later update()
C18_OneCycleLag ==
  [][/\ PollStep
          => /\ entities' = entities
             /\ handlers' = handlers
             /\ \A i \in 1..Len(inbox') : InList(inbox'[i].key, handlers)
             /\ \A p \in Followed :
                  entities[p] \in {"none", "uninitialized"}
                    => CallsFor(inbox', p) = 0
     /\ ~PollStep
          => \A p \in Objects : CallsFor(inbox', p) <= CallsFor(inbox, p)]_vars

\* the one update() so far asked for the climate platform, whose object is
\* now connected, and the publish of that update() has not called it
C18_Witness ==
  /\ polls = 1
  /\ Count(lastPoll.events, "climate") = 1
  /\ Count(lastPoll.events, DOMAIN_TOPIC) = 1
  /\ entities[<<"climate", "z1">>] = "subscribed"
  /\ inbox = <<>>

\* C19: an object has no handler connected before async_added_to_hass and
\* exactly one once it is subscribed; a publish schedules exactly one call
\* of _refresh for a subscribed object and none for an object not yet
\* attached, and a call that runs is one call less
C19_Lifecycle ==
  [][/\ \A p \in Objects :
          /\ entities[p] \in {"none", "uninitialized"}
               => Count(handlers, p) = 0 /\ CallsFor(inbox, p) = 0
          /\ entities[p] = "subscribed"
               => Count(handlers, p) = 1 /\ CallsFor(inbox, p) <= 1
          /\ (entities[p] = "uninitialized" /\ entities'[p] = "subscribed")
               => Count(handlers', p) = 1
     /\ (PollStep /\ evo.ready)
          => \A p \in Objects :
               /\ entities[p] = "subscribed" => CallsFor(inbox', p) = 1
               /\ entities[p] \in {"none", "uninitialized"}
                    => CallsFor(inbox', p) = 0
     /\ RefreshStep => Len(inbox') = Len(inbox) - 1]_vars

\* a publish has scheduled the one call of a subscribed object
C19_Witness ==
  /\ entities[<<"climate", "z1">>] = "subscribed"
  /\ Count(handlers, <<"climate", "z1">>) = 1
  /\ CallsFor(inbox, <<"climate", "z1">>) = 1
  /\ Count(lastPoll.events, DOMAIN_TOPIC) = 1

\* the last update() issued no request and published once
SteadyPoll == lastPoll.ran /\ lastPoll.events = <<DOMAIN_TOPIC>>

====
